---- MODULE Spec2Model ----
(***************************************************************************)
(* The fraud dashboard of src/app.py as a state machine.                  *)
(*                                                                         *)
(* app.py is a Streamlit script: one render pass runs it top to bottom,    *)
(* and every selector change (or page reload) starts a new pass.  What     *)
(* outlives a pass is the st.cache_resource entry of get_connection (per   *)
(* process) and the widget values of the browser session.  A pass is cut   *)
(* into the script's sections, one action each; an uncaught exception      *)
(* stops the pass where it is raised.                                      *)
(*                                                                         *)
(* A DataFrame is a sequence of records; the field idx is the row's index  *)
(* label (the RangeIndex pd.read_sql gives), which boolean-mask indexing   *)
(* keeps.  A timestamp is the integer YYYYMMDD.  The warehouse views hold  *)
(* the same rows for the whole behaviour; timestamps always parse.         *)
(***************************************************************************)
EXTENDS Integers, Sequences, FiniteSets, TLC

VARIABLES
    warehouse,    \* the four GOLD views: [kpi, trend, loc, dash], each a sequence of rows
    cache,        \* st.cache_resource entry of get_connection: NoConn or a handle
    connects,     \* number of snowflake.connector.connect calls that returned a handle
    handlesUsed,  \* the handles pd.read_sql has been given
    conn,         \* the script global conn of this pass
    pc,           \* the section the pass is about to run, "done" or "stopped"
    passes,       \* render passes started
    queries,      \* queries executed since the process started
    passQueries,  \* the views queried in this pass, in order
    error,        \* the uncaught exception of this pass: [section, kind]
    rendered,     \* the sections drawn in this pass, in order
    session,      \* widget values of the browser session, by widget key
    sel,          \* the script variables year_m, year_d, month_d, year_c, year, month, city, risk
    kpi_df, trend_df, loc_df, dash_df,   \* the tables loaded in this pass
    cards,        \* the five st.metric values
    yearly_df, monthly_df, daily_df, compare_df, filtered_df,   \* the tables drawn
    prev,         \* history: sel of the last completed pass of this session
    changed       \* history: panels whose selectors the user changed since

vars == <<warehouse, cache, connects, handlesUsed, conn, pc, passes, queries,
          passQueries, error, rendered, session, sel, kpi_df, trend_df, loc_df,
          dash_df, cards, yearly_df, monthly_df, daily_df, compare_df,
          filtered_df, prev, changed>>

-----------------------------------------------------------------------------
(* Bounds *)

MaxPasses == 3
MaxDashRows == 2
MaxTrendRows == 3
MaxKpiRows == 2

-----------------------------------------------------------------------------
(* Values *)

\* Python None: what st.selectbox returns for an empty option list, and the
\* value of a script variable not yet assigned in this pass.
None == 0

\* A NULL LOCATION of the FRAUD_DASHBOARD view (NaN/None in the DataFrame).
Null == "<NULL>"

\* A string-valued widget the session holds no value for, and a string-valued
\* script variable not yet assigned in this pass.
Unset == ""

\* No handle: the st.cache_resource entry before the first connect, and the
\* script global conn before get_connection() has returned.
NoConn == 0

NoError == [section |-> "", kind |-> "none"]

Range(s) == {s[i] : i \in 1..Len(s)}

-----------------------------------------------------------------------------
(* pandas *)

\* pd.read_sql(query, conn): the view's rows under a RangeIndex 0..n-1.
ReadSql(rows) == [i \in 1..Len(rows) |-> rows[i] @@ ("idx" :> (i - 1))]

\* pd.to_datetime(col).dt.year and .dt.month of a YYYYMMDD timestamp.
DtYear(ts) == ts \div 10000
DtMonth(ts) == (ts \div 100) % 100

\* df["YEAR"] = df[col].dt.year; df["MONTH"] = df[col].dt.month
DeriveCalendarParts(df, col) ==
    [i \in 1..Len(df) |->
        df[i] @@ ("YEAR" :> DtYear(df[i][col])) @@ ("MONTH" :> DtMonth(df[i][col]))]

\* df[df[col] == v]: the rows whose mask is true, in order, index labels kept.
\* A NULL never equals a selected value.
MaskEq(df, col, v) == SelectSeq(df, LAMBDA r : r[col] = v)

\* sorted(df[col].unique()) for an integer column.
RECURSIVE SortedSeq(_)
SortedSeq(S) ==
    IF S = {} THEN <<>>
    ELSE LET m == CHOOSE x \in S : \A y \in S : x <= y
         IN  <<m>> \o SortedSeq(S \ {m})

SortedUnique(df, col) == SortedSeq({df[i][col] : i \in 1..Len(df)})

\* series.sum()
RECURSIVE SumCol(_, _)
SumCol(df, col) ==
    IF Len(df) = 0 THEN 0 ELSE df[1][col] + SumCol(Tail(df), col)

\* Mutant: .first() instead of .sum().
GroupFirst(df, by) ==
    LET keys == SortedUnique(df, by)
    IN  [k \in 1..Len(keys) |->
            (by :> keys[k]) @@
            ("HIGH_RISK_TXNS" :> MaskEq(df, by, keys[k])[1].HIGH_RISK_TXNS)]

\* df.groupby(by)["HIGH_RISK_TXNS"].sum().reset_index(): one row per distinct
\* value of by, in ascending order of it.
GroupSum(df, by) ==
    LET keys == SortedUnique(df, by)
    IN  [k \in 1..Len(keys) |->
            (by :> keys[k]) @@
            ("HIGH_RISK_TXNS" :>
                SumCol(MaskEq(df, by, keys[k]), "HIGH_RISK_TXNS"))]

\* df.melt(id_vars=["TXN_DATE"], value_vars=["TOTAL_TXNS", "HIGH_RISK_TXNS"],
\*         var_name="TYPE", value_name="COUNT"): all rows of the first value
\* column, then all rows of the second.
Melt(df) ==
    [i \in 1..Len(df) |->
        [TXN_DATE |-> df[i].TXN_DATE, TYPE |-> "TOTAL_TXNS", COUNT |-> df[i].TOTAL_TXNS]]
    \o
    [i \in 1..Len(df) |->
        [TXN_DATE |-> df[i].TXN_DATE, TYPE |-> "HIGH_RISK_TXNS", COUNT |-> df[i].HIGH_RISK_TXNS]]

-----------------------------------------------------------------------------
(* streamlit *)

\* st.selectbox(label, options): the session's value for the widget when it
\* is one of the options, else the first option; None for no options.
Selectbox(stored, options) ==
    IF Len(options) = 0 THEN None
    ELSE IF stored \in Range(options) THEN stored
    ELSE options[1]

-----------------------------------------------------------------------------
(* The warehouse: rows of the four GOLD views *)

KpiRow(i) ==
    [TOTAL_TXNS |-> 100 * i, TOTAL_AMOUNT |-> 5000 * i, HIGH_RISK_TXNS |-> 10 * i,
     MEDIUM_RISK_TXNS |-> 30 * i, LOW_RISK_TXNS |-> 60 * i]

\* VW_FRAUD_KPI with 0, 1, ... rows (one row is the view's contract).
KpiTables == {[i \in 1..n |-> KpiRow(i)] : n \in 0..MaxKpiRows}

TrendRow(d, t, h) == [TXN_DATE |-> d, TOTAL_TXNS |-> t, HIGH_RISK_TXNS |-> h]

\* VW_FRAUD_TRENDS: empty; 2023 with January only and 2024 with February and
\* March; two days of January 2023.
TrendSnapshots ==
    { <<>>,
      <<TrendRow(20230110, 50, 5), TrendRow(20240210, 70, 2), TrendRow(20240305, 40, 1)>>,
      <<TrendRow(20230101, 100, 10), TrendRow(20230102, 120, 8)>> }

LocSnapshot ==
    <<[LOCATION |-> "LA", HIGH_RISK_TXNS |-> 3], [LOCATION |-> "NYC", HIGH_RISK_TXNS |-> 7]>>

DashRow(t, l, r) == [TXN_TIME |-> t, LOCATION |-> l, FRAUD_RISK_LEVEL |-> r]

\* VW_FRAUD_DASHBOARD: empty; rows of January 2023 and February 2024 (so no
\* row of February 2023), one with a NULL location and an unrecognized level.
DashSnapshots ==
    { <<>>,
      <<DashRow(20230105, "NYC", "HIGH_RISK"), DashRow(20240210, "LA", "LOW_RISK"),
        DashRow(20240215, Null, "UNKNOWN")>> }

\* Every table of up to max rows, for the specifications that look at one
\* section's computation.
TablesOver(rows, max) == UNION {[1..n -> rows] : n \in 0..max}

TrendRows == {TrendRow(d, 20, h) : d \in {20230105, 20230210, 20240105}, h \in {0, 1, 3}}
TrendTables == TablesOver(TrendRows, MaxTrendRows)

DashRows ==
    {DashRow(t, l, r) : t \in {20230105, 20230210, 20240105},
                        l \in {"NYC", "LA", Null}, r \in {"HIGH_RISK", "UNKNOWN"}}
DashTables == TablesOver(DashRows, MaxDashRows)

Warehouses ==
    [kpi : KpiTables, trend : TrendSnapshots, loc : {LocSnapshot}, dash : DashSnapshots]

-----------------------------------------------------------------------------
(* Widgets *)

\* The widget keys: key= where the script gives one, else the variable name.
YearMKey == "year_m"
DailyYearKey == "daily_year"
DailyMonthKey == "daily_month"
\* Mutant: the comparison selector is given the daily-trend key.
CompareYearKeyShared == "daily_year"
CompareYearKey == "compare_year"
YearKey == "year"
MonthKey == "month"
CityKey == "city"
RiskKey == "risk"

IntKeys == {YearMKey, DailyYearKey, DailyMonthKey, CompareYearKey, YearKey, MonthKey}
StrKeys == {CityKey, RiskKey}

\* A session with no widget value yet.
NoSession == [k \in IntKeys \cup StrKeys |-> IF k \in IntKeys THEN None ELSE Unset]

\* The script variables before any selectbox has returned.
NoSel ==
    [year_m |-> None, year_d |-> None, month_d |-> None, year_c |-> None,
     year |-> None, month |-> None, city |-> Unset, risk |-> Unset]

\* The panel a script variable belongs to.
Panel ==
    [year_m |-> "monthly", year_d |-> "daily", month_d |-> "daily", year_c |-> "compare",
     year |-> "drilldown", month |-> "drilldown", city |-> "drilldown", risk |-> "drilldown"]

\* sorted(dash_df["LOCATION"].dropna().unique()), alphabetical.
Cities == <<"LA", "NYC">>
SortedLocations(df) ==
    SelectSeq(Cities, LAMBDA c : \E i \in 1..Len(df) : df[i].LOCATION = c)

\* The option lists, as the script builds them.
YearOptions(df) == SortedUnique(df, "YEAR")
\* Mutant: the daily-trend months are taken from all years.
MonthOptionsAllYears(df, y) == SortedUnique(df, "MONTH")
MonthOptionsOfYear(df, y) == SortedUnique(MaskEq(df, "YEAR", y), "MONTH")
MonthOptions(df) == SortedUnique(df, "MONTH")
CityOptions(df) == <<"ALL">> \o SortedLocations(df)
RiskOptions == <<"ALL", "HIGH_RISK", "MEDIUM_RISK", "LOW_RISK">>

-----------------------------------------------------------------------------
(* The drill-down filter *)

ByYear(df, year) == MaskEq(df, "YEAR", year)
ByMonth(df, month) == MaskEq(df, "MONTH", month)
ByCity(df, city) == IF city # "ALL" THEN MaskEq(df, "LOCATION", city) ELSE df
ByRisk(df, risk) == IF risk # "ALL" THEN MaskEq(df, "FRAUD_RISK_LEVEL", risk) ELSE df

\* Mutant: the month mask is left out.
ApplyFiltersYearOnly(df, year, month, city, risk) ==
    ByRisk(ByCity(ByYear(df, year), city), risk)

\* Mutant: the year and month masks are joined by | instead of &.
ApplyFiltersOr(df, year, month, city, risk) ==
    LET f0 == SelectSeq(df, LAMBDA r : r.YEAR = year \/ r.MONTH = month)
    IN  ByRisk(ByCity(f0, city), risk)

\* Mutant: when nothing matches, the whole table is shown.
ApplyFiltersFallback(df, year, month, city, risk) ==
    LET f == ByRisk(ByCity(ByMonth(ByYear(df, year), month), city), risk)
    IN  IF f = <<>> THEN df ELSE f

\* filtered_df: the year-and-month mask, then the city, then the risk level.
ApplyFilters(df, year, month, city, risk) ==
    LET f0 == SelectSeq(df, LAMBDA r : r.YEAR = year /\ r.MONTH = month)
        f1 == ByCity(f0, city)
    IN  ByRisk(f1, risk)

-----------------------------------------------------------------------------
(* Initial state: the process has started and the first pass begins *)

Init ==
    /\ warehouse \in Warehouses
    /\ cache = NoConn
    /\ connects = 0
    /\ handlesUsed = {}
    /\ conn = NoConn
    /\ pc = "connect"
    /\ passes = 1
    /\ queries = 0
    /\ passQueries = <<>>
    /\ error = NoError
    /\ rendered = <<>>
    /\ session = NoSession
    /\ sel = NoSel
    /\ kpi_df = <<>> /\ trend_df = <<>> /\ loc_df = <<>> /\ dash_df = <<>>
    /\ cards = <<>>
    /\ yearly_df = <<>> /\ monthly_df = <<>> /\ daily_df = <<>>
    /\ compare_df = <<>> /\ filtered_df = <<>>
    /\ prev = [valid |-> FALSE, sel |-> NoSel]
    /\ changed = {}

tables == <<kpi_df, trend_df, loc_df, dash_df>>
drawn == <<cards, yearly_df, monthly_df, daily_df, compare_df, filtered_df>>
history == <<prev, changed>>
process == <<cache, connects>>
counters == <<handlesUsed, queries, passQueries>>

-----------------------------------------------------------------------------
(* Steps shared by the sections *)

\* Mutant: the exception is caught and the section runs again.
RaiseAndRetry(section, kind) ==
    /\ error' = [section |-> section, kind |-> kind]
    /\ pc' = pc

\* An exception nobody catches: the pass stops in the section that raised it.
Raise(section, kind) ==
    /\ error' = [section |-> section, kind |-> kind]
    /\ pc' = "stopped"

\* The views in the order the script queries them.
ViewOrder ==
    <<"VW_FRAUD_KPI", "VW_FRAUD_TRENDS", "VW_LOCATION_RISK", "VW_FRAUD_DASHBOARD">>

\* The sections that draw something, in script order.
SectionOrder == <<"kpi", "yearly", "monthly", "daily", "compare", "location", "drilldown">>

\* Mutant: the query is executed a second time.
RunQueryTwice(view) ==
    /\ queries' = queries + 2
    /\ passQueries' = passQueries \o <<view, view>>
    /\ handlesUsed' = handlesUsed \cup {conn}

\* run_query(query): pd.read_sql on the script's conn, once.
RunQuery(view) ==
    /\ queries' = queries + 1
    /\ passQueries' = Append(passQueries, view)
    /\ handlesUsed' = handlesUsed \cup {conn}

\* Mutant: get_connection() without @st.cache_resource.
CacheMiss == FALSE

\* st.cache_resource: whether get_connection() finds its result cached.
CacheHit == cache # NoConn

\* conn = get_connection()
GetConnection ==
    /\ pc = "connect"
    /\ IF CacheHit
       THEN /\ conn' = cache
            /\ pc' = "kpi"
            /\ UNCHANGED <<process, error>>
       ELSE \E ok \in BOOLEAN :
              IF ok
              THEN /\ connects' = connects + 1
                   /\ cache' = connects + 1
                   /\ conn' = connects + 1
                   /\ pc' = "kpi"
                   /\ UNCHANGED error
              ELSE /\ Raise("connect", "connection")
                   /\ UNCHANGED <<process, conn>>
    /\ UNCHANGED <<warehouse, counters, passes, rendered, session, sel, tables,
                   drawn, history>>

\* The st.metric cards: column[0] of each KPI column, the row labelled 0.
KpiCards(df) ==
    LET row == CHOOSE r \in Range(df) : r.idx = 0
    IN  <<row.TOTAL_TXNS, row.TOTAL_AMOUNT, row.HIGH_RISK_TXNS,
          row.MEDIUM_RISK_TXNS, row.LOW_RISK_TXNS>>

\* KPI SECTION
KpiSection ==
    /\ pc = "kpi"
    /\ RunQuery("VW_FRAUD_KPI")
    /\ \E ok \in BOOLEAN :
         IF ~ok
         THEN /\ Raise("kpi", "query")
              /\ UNCHANGED <<kpi_df, cards, rendered>>
         ELSE LET df == ReadSql(warehouse.kpi)
              IN  /\ kpi_df' = df
                  /\ IF \A r \in Range(df) : r.idx # 0
                     THEN /\ Raise("kpi", "KeyError")
                          /\ UNCHANGED <<cards, rendered>>
                     ELSE /\ cards' = KpiCards(df)
                          /\ rendered' = Append(rendered, "kpi")
                          /\ pc' = "trend"
                          /\ UNCHANGED error
    /\ UNCHANGED <<warehouse, process, conn, passes, session, sel, trend_df, loc_df,
                   dash_df, yearly_df, monthly_df, daily_df, compare_df,
                   filtered_df, history>>

\* LOAD TREND DATA
LoadTrend ==
    /\ pc = "trend"
    /\ RunQuery("VW_FRAUD_TRENDS")
    /\ \E ok \in BOOLEAN :
         IF ~ok
         THEN /\ Raise("trend", "query")
              /\ UNCHANGED trend_df
         ELSE /\ trend_df' = DeriveCalendarParts(ReadSql(warehouse.trend), "TXN_DATE")
              /\ pc' = "yearly"
              /\ UNCHANGED error
    /\ UNCHANGED <<warehouse, process, conn, passes, rendered, session, sel, kpi_df,
                   loc_df, dash_df, drawn, history>>

\* YEARLY HIGH RISK % (PIE)
YearlyPie ==
    /\ pc = "yearly"
    /\ yearly_df' = GroupSum(trend_df, "YEAR")
    /\ rendered' = Append(rendered, "yearly")
    /\ pc' = "monthly"
    /\ UNCHANGED <<warehouse, process, counters, conn, passes, error, session, sel,
                   tables, cards, monthly_df, daily_df, compare_df, filtered_df,
                   history>>

\* MONTHLY HIGH RISK % (PIE)
MonthlyPie ==
    /\ pc = "monthly"
    /\ LET year_m == Selectbox(session[YearMKey], YearOptions(trend_df))
       IN  /\ session' = [session EXCEPT ![YearMKey] = year_m]
           /\ sel' = [sel EXCEPT !.year_m = year_m]
           /\ monthly_df' = GroupSum(MaskEq(trend_df, "YEAR", year_m), "MONTH")
    /\ rendered' = Append(rendered, "monthly")
    /\ pc' = "daily"
    /\ UNCHANGED <<warehouse, process, counters, conn, passes, error, tables, cards,
                   yearly_df, daily_df, compare_df, filtered_df, history>>

\* DAILY HIGH RISK TREND
DailyTrend ==
    /\ pc = "daily"
    /\ LET year_d == Selectbox(session[DailyYearKey], YearOptions(trend_df))
           month_d == Selectbox(session[DailyMonthKey],
                                MonthOptionsOfYear(trend_df, year_d))
       IN  /\ session' = [session EXCEPT ![DailyYearKey] = year_d,
                                         ![DailyMonthKey] = month_d]
           /\ sel' = [sel EXCEPT !.year_d = year_d, !.month_d = month_d]
           /\ daily_df' = SelectSeq(trend_df,
                              LAMBDA r : r.YEAR = year_d /\ r.MONTH = month_d)
    /\ rendered' = Append(rendered, "daily")
    /\ pc' = "compare"
    /\ UNCHANGED <<warehouse, process, counters, conn, passes, error, tables, cards,
                   yearly_df, monthly_df, compare_df, filtered_df, history>>

\* TOTAL vs HIGH RISK TREND
CompareTrend ==
    /\ pc = "compare"
    /\ LET year_c == Selectbox(session[CompareYearKey], YearOptions(trend_df))
       IN  /\ session' = [session EXCEPT ![CompareYearKey] = year_c]
           /\ sel' = [sel EXCEPT !.year_c = year_c]
           /\ compare_df' = Melt(MaskEq(trend_df, "YEAR", year_c))
    /\ rendered' = Append(rendered, "compare")
    /\ pc' = "location"
    /\ UNCHANGED <<warehouse, process, counters, conn, passes, error, tables, cards,
                   yearly_df, monthly_df, daily_df, filtered_df, history>>

\* HIGH RISK BY LOCATION
LocationSection ==
    /\ pc = "location"
    /\ RunQuery("VW_LOCATION_RISK")
    /\ \E ok \in BOOLEAN :
         IF ~ok
         THEN /\ Raise("location", "query")
              /\ UNCHANGED <<loc_df, rendered>>
         ELSE /\ loc_df' = ReadSql(warehouse.loc)
              /\ rendered' = Append(rendered, "location")
              /\ pc' = "drilldown"
              /\ UNCHANGED error
    /\ UNCHANGED <<warehouse, process, conn, passes, session, sel, kpi_df, trend_df,
                   dash_df, drawn, history>>

\* TRANSACTION DRILL-DOWN
DrillDown ==
    /\ pc = "drilldown"
    /\ RunQuery("VW_FRAUD_DASHBOARD")
    /\ \E ok \in BOOLEAN :
         IF ~ok
         THEN /\ Raise("drilldown", "query")
              /\ UNCHANGED <<dash_df, session, sel, filtered_df, rendered>>
         ELSE LET df == DeriveCalendarParts(ReadSql(warehouse.dash), "TXN_TIME")
                  year == Selectbox(session[YearKey], YearOptions(df))
                  month == Selectbox(session[MonthKey], MonthOptions(df))
                  city == Selectbox(session[CityKey], CityOptions(df))
                  risk == Selectbox(session[RiskKey], RiskOptions)
              IN  /\ dash_df' = df
                  /\ session' = [session EXCEPT ![YearKey] = year, ![MonthKey] = month,
                                                ![CityKey] = city, ![RiskKey] = risk]
                  /\ sel' = [sel EXCEPT !.year = year, !.month = month,
                                        !.city = city, !.risk = risk]
                  /\ filtered_df' = ApplyFilters(df, year, month, city, risk)
                  /\ rendered' = Append(rendered, "drilldown")
                  /\ pc' = "done"
                  /\ UNCHANGED error
    /\ UNCHANGED <<warehouse, process, conn, passes, kpi_df, trend_df, loc_df, cards,
                   yearly_df, monthly_df, daily_df, compare_df, history>>

-----------------------------------------------------------------------------
(* The user *)

\* Streamlit reruns the script from its first line.
StartPass ==
    /\ passes' = passes + 1
    /\ pc' = "connect"
    /\ conn' = NoConn
    /\ passQueries' = <<>>
    /\ error' = NoError
    /\ rendered' = <<>>
    /\ sel' = NoSel
    /\ kpi_df' = <<>> /\ trend_df' = <<>> /\ loc_df' = <<>> /\ dash_df' = <<>>
    /\ cards' = <<>>
    /\ yearly_df' = <<>> /\ monthly_df' = <<>> /\ daily_df' = <<>>
    /\ compare_df' = <<>> /\ filtered_df' = <<>>

\* The section that draws each widget, and the script variable it returns to.
WidgetSection ==
    (YearMKey :> "monthly") @@ (DailyYearKey :> "daily") @@ (DailyMonthKey :> "daily")
    @@ (CompareYearKey :> "compare") @@ (YearKey :> "drilldown")
    @@ (MonthKey :> "drilldown") @@ (CityKey :> "drilldown") @@ (RiskKey :> "drilldown")

\* The options a drawn widget offers.
Options(k) ==
    CASE k = YearMKey -> YearOptions(trend_df)
      [] k = DailyYearKey -> YearOptions(trend_df)
      [] k = DailyMonthKey -> MonthOptionsOfYear(trend_df, sel.year_d)
      [] k = CompareYearKey -> YearOptions(trend_df)
      [] k = YearKey -> YearOptions(dash_df)
      [] k = MonthKey -> MonthOptions(dash_df)
      [] k = CityKey -> CityOptions(dash_df)
      [] k = RiskKey -> RiskOptions

\* The user picks another option of a widget on the page.
Select(k, v) ==
    /\ passes < MaxPasses
    /\ WidgetSection[k] \in Range(rendered)
    /\ v \in Range(Options(k))
    /\ v # session[k]
    /\ session' = [session EXCEPT ![k] = v]
    /\ prev' = IF pc = "done" THEN [valid |-> TRUE, sel |-> sel] ELSE prev
    /\ changed' = (IF pc = "done" THEN {} ELSE changed) \cup {WidgetSection[k]}
    /\ StartPass
    /\ UNCHANGED <<warehouse, process, handlesUsed, queries>>

SelectYearM == \E v \in Range(Options(YearMKey)) : Select(YearMKey, v)
SelectDailyYear == \E v \in Range(Options(DailyYearKey)) : Select(DailyYearKey, v)
SelectDailyMonth == \E v \in Range(Options(DailyMonthKey)) : Select(DailyMonthKey, v)
SelectCompareYear == \E v \in Range(Options(CompareYearKey)) : Select(CompareYearKey, v)
SelectYear == \E v \in Range(Options(YearKey)) : Select(YearKey, v)
SelectMonth == \E v \in Range(Options(MonthKey)) : Select(MonthKey, v)
SelectCity == \E v \in Range(Options(CityKey)) : Select(CityKey, v)
SelectRisk == \E v \in Range(Options(RiskKey)) : Select(RiskKey, v)

\* The user reloads the page: a new session of the same process.
Reload ==
    /\ passes < MaxPasses
    /\ pc # "connect"
    /\ session' = NoSession
    /\ prev' = [valid |-> FALSE, sel |-> NoSel]
    /\ changed' = {}
    /\ StartPass
    /\ UNCHANGED <<warehouse, process, handlesUsed, queries>>

Next ==
    \/ GetConnection
    \/ KpiSection
    \/ LoadTrend
    \/ YearlyPie
    \/ MonthlyPie
    \/ DailyTrend
    \/ CompareTrend
    \/ LocationSection
    \/ DrillDown
    \/ SelectYearM
    \/ SelectDailyYear
    \/ SelectDailyMonth
    \/ SelectCompareYear
    \/ SelectYear
    \/ SelectMonth
    \/ SelectCity
    \/ SelectRisk
    \/ Reload

Spec == Init /\ [][Next]_vars

-----------------------------------------------------------------------------
(* One section on every small table *)

\* A first pass that has connected and drawn the KPI cards.
AfterKpi(w) ==
    /\ warehouse = w
    /\ cache = 1 /\ connects = 1 /\ conn = 1 /\ handlesUsed = {1}
    /\ passes = 1
    /\ error = NoError
    /\ kpi_df = ReadSql(w.kpi)
    /\ cards = KpiCards(ReadSql(w.kpi))
    /\ prev = [valid |-> FALSE, sel |-> NoSel]
    /\ changed = {}

\* The trend sections on every trend table: the pass is about to load it.
InitTrend ==
    /\ \E t \in TrendTables :
         AfterKpi([kpi |-> <<KpiRow(1)>>, trend |-> t, loc |-> LocSnapshot, dash |-> <<>>])
    /\ pc = "trend"
    /\ queries = 1
    /\ passQueries = SubSeq(ViewOrder, 1, 1)
    /\ rendered = SubSeq(SectionOrder, 1, 1)
    /\ session = NoSession
    /\ sel = NoSel
    /\ trend_df = <<>> /\ loc_df = <<>> /\ dash_df = <<>>
    /\ yearly_df = <<>> /\ monthly_df = <<>> /\ daily_df = <<>>
    /\ compare_df = <<>> /\ filtered_df = <<>>

NextTrend == LoadTrend \/ YearlyPie

SpecTrend == InitTrend /\ [][NextTrend]_vars

\* The drill-down section on every drill-down table, in a fresh session and
\* under every selection its widgets offer: the pass (over an empty trend
\* view) is about to run it.
InitDrill ==
    /\ \E d \in DashTables :
         /\ AfterKpi([kpi |-> <<KpiRow(1)>>, trend |-> <<>>, loc |-> LocSnapshot, dash |-> d])
         /\ LET df == DeriveCalendarParts(ReadSql(d), "TXN_TIME")
            IN  \/ session = NoSession
                \/ \E y \in Range(YearOptions(df)), m \in Range(MonthOptions(df)),
                      c \in Range(CityOptions(df)), r \in Range(RiskOptions) :
                     session = [NoSession EXCEPT ![YearKey] = y, ![MonthKey] = m,
                                                 ![CityKey] = c, ![RiskKey] = r]
    /\ pc = "drilldown"
    /\ queries = 3
    /\ passQueries = SubSeq(ViewOrder, 1, 3)
    /\ rendered = SubSeq(SectionOrder, 1, 6)
    /\ sel = NoSel
    /\ trend_df = <<>> /\ loc_df = ReadSql(LocSnapshot) /\ dash_df = <<>>
    /\ yearly_df = <<>> /\ monthly_df = <<>> /\ daily_df = <<>>
    /\ compare_df = <<>> /\ filtered_df = <<>>

NextDrill == DrillDown

SpecDrill == InitDrill /\ [][NextDrill]_vars

-----------------------------------------------------------------------------
(* Properties *)

IsPrefix(s, t) == Len(s) <= Len(t) /\ s = SubSeq(t, 1, Len(s))

Drawn(section) == section \in Range(rendered)

\* The drill-down predicate of a selection on a row.
Satisfies(r, year, month, city, risk) ==
    /\ r.YEAR = year
    /\ r.MONTH = month
    /\ city = "ALL" \/ r.LOCATION = city
    /\ risk = "ALL" \/ r.FRAUD_RISK_LEVEL = risk

Matching == {r \in Range(dash_df) : Satisfies(r, sel.year, sel.month, sel.city, sel.risk)}

\* C1: the drill-down table shows exactly the rows of dash_df matching the
\* selection: every shown row is a matching row of dash_df, every matching row
\* is shown exactly once, and a row with a NULL location or an unrecognized
\* risk level is shown only under "ALL".
FilterExact ==
    Drawn("drilldown") =>
        /\ \A i \in 1..Len(filtered_df) : filtered_df[i] \in Matching
        /\ \A r \in Matching :
             Cardinality({i \in 1..Len(filtered_df) : filtered_df[i] = r}) = 1
        /\ \A i \in 1..Len(filtered_df) :
             /\ filtered_df[i].LOCATION = Null => sel.city = "ALL"
             /\ filtered_df[i].FRAUD_RISK_LEVEL \notin Range(Tail(RiskOptions))
                    => sel.risk = "ALL"

\* C1 witness: a city and a risk level are selected, some rows are shown and
\* some are filtered out.
FilterExactWitness ==
    /\ Drawn("drilldown")
    /\ sel.city # "ALL" /\ sel.risk # "ALL"
    /\ 0 < Len(filtered_df) /\ Len(filtered_df) < Len(dash_df)

\* C2: a KPI query returning 0 rows or 2 or more rows ends the pass in a
\* data-shape error of the KPI section, with no card drawn.
KpiCardinalityError ==
    (/\ Len(passQueries) >= 1
     /\ error # [section |-> "kpi", kind |-> "query"]
     /\ Len(warehouse.kpi) # 1)
        => /\ pc = "stopped"
           /\ error.section = "kpi"
           /\ cards = <<>>

SingleConnection ==
    /\ connects <= 1
    /\ handlesUsed \subseteq {cache} \ {NoConn}
    /\ conn \in {NoConn, cache}

\* C4 witness: a later pass has queried on the handle the first pass opened.
SingleConnectionWitness ==
    /\ passes >= 2 /\ connects = 1
    /\ queries > Len(ViewOrder)
    /\ passQueries # <<>>

\* C5: in a completed pass, the selectors of every panel the user has not
\* touched since the last completed pass return what they returned then.
SelectorsIndependent ==
    (pc = "done" /\ prev.valid) =>
        \A v \in DOMAIN sel : Panel[v] \notin changed => sel[v] = prev.sel[v]

\* C5 witness: the daily-trend year was changed and the comparison year, on
\* the same options, is what it was.
SelectorsIndependentWitness ==
    /\ pc = "done" /\ prev.valid
    /\ changed = {"daily"}
    /\ sel.year_d # prev.sel.year_d
    /\ sel.year_c = prev.sel.year_c /\ sel.year_c # None
    /\ sel.year_m = prev.sel.year_m

\* The sections drawn before a section's query is issued.
DrawnBefore(section) ==
    CASE section = "kpi" -> <<>>
      [] section = "trend" -> SubSeq(SectionOrder, 1, 1)
      [] section = "location" -> SubSeq(SectionOrder, 1, 5)
      [] section = "drilldown" -> SubSeq(SectionOrder, 1, 6)

\* C6: a failed query stops the pass in its section: the failing query is the
\* last one issued in the pass and was issued once, and exactly the sections
\* before it are drawn.
QueryErrorStopsPass ==
    error.kind = "query" =>
        /\ pc = "stopped"
        /\ IsPrefix(passQueries, ViewOrder)
        /\ Len(passQueries) =
             (CASE error.section = "kpi" -> 1 [] error.section = "trend" -> 2
                [] error.section = "location" -> 3 [] error.section = "drilldown" -> 4)
        /\ rendered = DrawnBefore(error.section)

\* C6 witness: the location query failed after the trend panels were drawn.
QueryErrorStopsPassWitness ==
    /\ error = [section |-> "location", kind |-> "query"]
    /\ Len(rendered) = 5
    /\ yearly_df # <<>>

\* C7: the yearly aggregate keeps the total of HIGH_RISK_TXNS and has exactly
\* one row per distinct YEAR of the trend table.
YearlyPreservesTotal ==
    Drawn("yearly") =>
        /\ SumCol(yearly_df, "HIGH_RISK_TXNS") = SumCol(trend_df, "HIGH_RISK_TXNS")
        /\ \A i \in 1..Len(trend_df) :
             Cardinality({k \in 1..Len(yearly_df) : yearly_df[k].YEAR = trend_df[i].YEAR}) = 1
        /\ \A k \in 1..Len(yearly_df) :
             \E i \in 1..Len(trend_df) : trend_df[i].YEAR = yearly_df[k].YEAR

\* C7 witness: two rows of one year were summed into one.
YearlyPreservesTotalWitness ==
    /\ Drawn("yearly")
    /\ Len(yearly_df) < Len(trend_df)
    /\ \E i, j \in 1..Len(trend_df) :
         /\ i # j /\ trend_df[i].YEAR = trend_df[j].YEAR
         /\ trend_df[i].HIGH_RISK_TXNS > 0 /\ trend_df[j].HIGH_RISK_TXNS > 0

\* The four filters applied one after the other in a given order.
FilterNames == {"year", "month", "city", "risk"}
Orders == {o \in [1..4 -> FilterNames] : \A i, j \in 1..4 : i # j => o[i] # o[j]}

OneFilter(df, f) ==
    CASE f = "year" -> ByYear(df, sel.year)
      [] f = "month" -> ByMonth(df, sel.month)
      [] f = "city" -> ByCity(df, sel.city)
      [] f = "risk" -> ByRisk(df, sel.risk)

InOrder(df, o) == OneFilter(OneFilter(OneFilter(OneFilter(df, o[1]), o[2]), o[3]), o[4])

\* C8: the four filters applied in any order give the set of rows the
\* drill-down table shows.
FiltersCommute ==
    Drawn("drilldown") =>
        \A o \in Orders : Range(InOrder(dash_df, o)) = Range(filtered_df)

\* C8 witness: all four filters are active, a row is shown, and two of the
\* filters alone let different rows through.
FiltersCommuteWitness ==
    /\ Drawn("drilldown")
    /\ sel.city # "ALL" /\ sel.risk # "ALL"
    /\ filtered_df # <<>>
    /\ \E f, g \in FilterNames : Range(OneFilter(dash_df, f)) # Range(OneFilter(dash_df, g))

\* C9: once the drill-down query has returned, the pass completes without an
\* error, and a selection no row matches shows an empty table.
EmptyResultNoError ==
    (Len(passQueries) = 4 /\ error.kind # "query") =>
        /\ pc = "done" /\ error = NoError /\ Drawn("drilldown")
        /\ Matching = {} => filtered_df = <<>>

\* C9 witness: the table has rows and the selected month has none in the
\* selected year.
EmptyResultNoErrorWitness ==
    /\ pc = "done" /\ dash_df # <<>>
    /\ filtered_df = <<>>
    /\ sel.city = "ALL" /\ sel.risk = "ALL"
    /\ \E i \in 1..Len(dash_df) : dash_df[i].MONTH = sel.month
    /\ \E i \in 1..Len(dash_df) : dash_df[i].YEAR = sel.year

\* C10: on a non-empty trend table the month of the daily-trend panel is a
\* month of the selected year, and the daily table drawn is not empty.
DailyMonthOffered ==
    (Drawn("daily") /\ trend_df # <<>>) =>
        /\ \E i \in 1..Len(trend_df) :
             trend_df[i].YEAR = sel.year_d /\ trend_df[i].MONTH = sel.month_d
        /\ daily_df # <<>>

\* C10 witness: the year was changed to one without the month selected
\* before, and the month fell back to the first one offered.
DailyMonthOfferedWitness ==
    /\ Drawn("daily") /\ prev.valid
    /\ changed = {"daily"}
    /\ prev.sel.month_d # None
    /\ prev.sel.month_d \notin Range(MonthOptionsOfYear(trend_df, sel.year_d))
    /\ sel.month_d = MonthOptionsOfYear(trend_df, sel.year_d)[1]

====
